---- MODULE Spec2Model ----
(***************************************************************************)
(* School Parent Membership System (server.py): the SQLite store, the      *)
(* session tokens and the request handlers, as a state machine.            *)
(*                                                                         *)
(* Texts (emails, passwords, membership numbers, names) are tuples of      *)
(* one-character strings, so that strip(), lower(), len(), isdigit() and   *)
(* the string order SQLite sorts by are computed, not assumed.  The        *)
(* literals of the source are abbreviated to a few characters.             *)
(*                                                                         *)
(* Time is counted in ticks, TicksPerDay of them per calendar day; tick 0  *)
(* is midnight of day 0.  datetime.now() is the variable now.              *)
(***************************************************************************)
EXTENDS Integers, Sequences, FiniteSets, TLC

VARIABLES
    db,       \* the committed SQLite database: members, family_members, attendance, sessions
    now,      \* datetime.now(), in ticks
    issued,   \* number of tokens secrets.token_urlsafe has produced so far
    reqs      \* the delete-member requests in flight (one per worker)

vars == <<db, now, issued, reqs>>

(***************************************************************************)
(* Bounds of the model                                                     *)
(***************************************************************************)
TicksPerDay == 2      \* clock resolution: ticks per calendar day
Horizon == 2          \* requests arrive at the midnights of days 0..Horizon (and when a session expires)
ImportExpiryDay == 1  \* the day on which an imported membership runs out
MaxMemberSeq == 2     \* rows ever inserted into members (AUTOINCREMENT never reuses an id)
MaxAttendance == 1    \* rows in attendance before the scanners stop
MaxIssued == 1        \* tokens ever issued
MaxImportRows == 1    \* rows in one bulk import request
MaxLogins == 2        \* tokens ever issued where only sessions, passwords and accounts change
MaxAccounts == 3      \* rows ever inserted into members where only accounts change
NumWorkers == 1       \* server workers that can hold a delete-member request in flight
NumThreads == 2       \* request threads of the server where logins and deletions interleave

(***************************************************************************)
(* Program constants                                                       *)
(***************************************************************************)
SessionDays == 7          \* timedelta(days=7)
PointsPerScan == 10       \* points_awarded = 10
MinPasswordLen == 6       \* len(new_password) < 6
PhoneLen == 10            \* len(email_or_phone) == 10
MemberNumberWidth == 4    \* zfill(4)
FirstMemberNumber == 1000 \* next_number = 1000
DefaultExpiryDay == 1000  \* '2030-12-31', as a day number far beyond the horizon
ExpiringDays == 30        \* timedelta(days=30)

SessionTicks == SessionDays * TicksPerDay

(***************************************************************************)
(* Text helpers: Python str methods                                        *)
(***************************************************************************)
Digits == <<"0", "1", "2", "3", "4", "5", "6", "7", "8", "9">>

DigitSet == {Digits[i] : i \in 1..10}

DigitValue(c) == (CHOOSE i \in 1..10 : Digits[i] = c) - 1

RECURSIVE lstrip(_)
lstrip(s) == IF s # <<>> /\ Head(s) = " " THEN lstrip(Tail(s)) ELSE s

RECURSIVE rstrip(_)
rstrip(s) == IF s # <<>> /\ s[Len(s)] = " " THEN rstrip(SubSeq(s, 1, Len(s) - 1)) ELSE s

strip(s) == rstrip(lstrip(s))

LowerChar(c) ==
    CASE c = "A" -> "a"
      [] c = "B" -> "b"
      [] c = "X" -> "x"
      [] OTHER -> c

lower(s) == [i \in 1..Len(s) |-> LowerChar(s[i])]

isdigit(s) == s # <<>> /\ \A i \in 1..Len(s) : s[i] \in DigitSet

startswith(s, c) == s # <<>> /\ s[1] = c

\* hashlib.sha256(password.encode()).hexdigest(): a digest, taken to be free of collisions
hash_password(password) == [sha256 |-> password]

\* first_name || ' ' || surname, f"{first_name} {surname}"
FullName(first_name, surname) == first_name \o <<" ">> \o surname

(***************************************************************************)
(* Dates: an expiry_date column holds a text.  The texts that occur are a  *)
(* date ('2030-12-31'), a date with a time, and texts that are no ISO date *)
(* (the import's default is '').                                           *)
(***************************************************************************)
DateOnly(day) == [kind |-> "date", day |-> day]

DateTime(t) == [kind |-> "datetime", t |-> t]

NotADate(text) == [kind |-> "text", text |-> text]

\* datetime.fromisoformat(text): a date parses to its midnight; "error" stands for ValueError
fromisoformat(e) ==
    CASE e.kind = "date" -> e.day * TicksPerDay
      [] e.kind = "datetime" -> e.t
      [] OTHER -> "error"

ParsesAsDate(e) == e.kind \in {"date", "datetime"}

\* datetime.now().date(), as a day number
Today(t) == t \div TicksPerDay

\* expiry_date < datetime.now().date().isoformat(): a comparison of texts.  A date compares
\* by its day; a date with a time compares by its first ten characters and, those being
\* equal, is the longer and so the greater text; '' is less than every date.
TextLessThanDate(e, day) ==
    CASE e.kind = "date" -> e.day < day
      [] e.kind = "datetime" -> Today(e.t) < day
      [] OTHER -> e.text = <<>>

\* expiry_date > datetime.now().isoformat(), a comparison of texts: on the same day the
\* date without a time is the shorter and so the lesser text
TextAfterInstant(e, t) ==
    CASE e.kind = "date" -> e.day > Today(t)
      [] e.kind = "datetime" -> e.t > t
      [] OTHER -> FALSE

(***************************************************************************)
(* Literals of the source                                                  *)
(***************************************************************************)
default_admin_email == <<"r", "@", "s">>

default_admin_password == <<"A", "d", "m", "i", "n", "1", "2", "3", "!">>

DefaultAdminNumber == <<"M", "0", "0", "0", "0">>

DefaultExpiry == DateOnly(DefaultExpiryDay)

\* request.headers.get('Authorization') when the header is missing
NoToken == 0

\* cursor.fetchone() over members: the first row in rowid order, None when there is none
None == [none |-> TRUE]

\* A text column that is NULL (no text of the model holds a string of four characters)
NullText == <<"NULL">>

FetchOne(rows) ==
    IF rows = {} THEN None
    ELSE CHOOSE r \in rows : \A q \in rows : r.id <= q.id

(***************************************************************************)
(* init_db: the four empty tables and the default admin account            *)
(***************************************************************************)
DefaultAdmin ==
    [id |-> 1,
     member_number |-> DefaultAdminNumber,
     first_name |-> <<"L">>,
     surname |-> <<"V">>,
     email |-> default_admin_email,
     phone |-> <<>>,
     password_hash |-> hash_password(default_admin_password),
     expiry_date |-> DefaultExpiry,
     status |-> "active",
     points |-> 0,
     is_admin |-> 1]

init_db ==
    [members |-> {DefaultAdmin},
     member_seq |-> 1,
     family_members |-> {},
     attendance |-> <<>>,
     sessions |-> {}]

(***************************************************************************)
(* verify_token: the session row of the token, if it has not expired,      *)
(* LEFT JOINed with the member of its email                                *)
(***************************************************************************)
\* WHERE s.token = ? AND s.expires_at > ?
SessionLive(s, token, t) == s.token = token /\ s.expires_at > t

\* The exception of a call that is not inside a try block reaches the caller
Raised == [raised |-> TRUE]

\* connect_raises: sqlite3.connect raises in get_db(), which is called before the try block.
\* query_raises: cursor.execute raises inside the try block; the except branch prints the
\* error and None is returned.
VerifyTokenOutcome(d, t, token, connect_raises, query_raises) ==
    IF token = NoToken THEN None
    ELSE IF connect_raises THEN Raised
    ELSE IF query_raises THEN None
    ELSE LET live == {s \in d.sessions : SessionLive(s, token, t)}
         IN IF live = {} THEN None
            ELSE LET s == CHOOSE x \in live : TRUE
                     m == FetchOne({r \in d.members : r.email = s.email})
                 IN [email |-> s.email,
                     role |-> s.role,
                     first_name |-> IF m = None THEN NullText ELSE m.first_name,
                     surname |-> IF m = None THEN NullText ELSE m.surname,
                     member_number |-> IF m = None THEN NullText ELSE m.member_number,
                     is_admin |-> IF m = None THEN None ELSE m.is_admin]

\* verify_token when the database answers
verify_token(d, t, token) == VerifyTokenOutcome(d, t, token, FALSE, FALSE)

\* The check that asks for a session and not for its role
IsAnyUser(user) == user # None

\* if not user or user['role'] != 'admin'
IsAdminUser(user) == user # None /\ user.role = "admin"

\* A response: the HTTP status and the 'error' (or 'message') text of the JSON body
Response(code, text) == [code |-> code, text |-> text]

Unauthorized == Response(401, "Unauthorized")

\* f"{x}" of a column that the LEFT JOIN left NULL
Str(x) == IF x = NullText THEN <<"N", "o", "n", "e">> ELSE x

(***************************************************************************)
(* login: POST /api/login, by email or by phone number.  token is the      *)
(* value generate_token() returns.                                         *)
(***************************************************************************)
IsPhone(text) == isdigit(text) /\ Len(text) = PhoneLen /\ startswith(text, "0")

NewSession(member, token, t) ==
    [email |-> member.email,
     token |-> token,
     role |-> IF member.is_admin = 1 THEN "admin" ELSE "member",
     expires_at |-> t + SessionTicks]

\* The handler without the check of the status
AccountActiveAlways(member) == TRUE

\* if member['status'] != 'active', negated
AccountActive(member) == member.status = "active"

login(d, t, token, email, password) ==
    LET email_or_phone == strip(email)
        pw == strip(password)
        password_hash == hash_password(pw)
        rows == IF IsPhone(email_or_phone)
                THEN {r \in d.members : r.phone = email_or_phone
                                         /\ r.password_hash = password_hash}
                ELSE {r \in d.members : r.email = lower(email_or_phone)
                                         /\ r.password_hash = password_hash}
        member == FetchOne(rows)
    IN IF email_or_phone = <<>> \/ pw = <<>>
       THEN [db |-> d, resp |-> Response(400, "Email/phone and password required")]
       ELSE IF member = None
       THEN [db |-> d, resp |-> Response(401, "Invalid credentials")]
       ELSE IF ~AccountActive(member)
       THEN [db |-> d, resp |-> Response(401, "Account is not active")]
       ELSE [db |-> [d EXCEPT !.sessions = @ \cup {NewSession(member, token, t)}],
             resp |-> [code |-> 200, text |-> "success", token |-> token,
                       role |-> NewSession(member, token, t).role,
                       member_number |-> member.member_number]]

(***************************************************************************)
(* logout: POST /api/logout                                                *)
(***************************************************************************)
\* The DELETE that removes every session of the token's email
DeleteSessionsOfIdentity(sessions, token) ==
    {s \in sessions : \A x \in sessions : x.token = token => s.email # x.email}

\* DELETE FROM sessions WHERE token = ?
DeleteSessionOfToken(sessions, token) == {s \in sessions : s.token # token}

logout(d, token) ==
    [db |-> IF token # NoToken
            THEN [d EXCEPT !.sessions = DeleteSessionOfToken(@, token)]
            ELSE d,
     resp |-> Response(200, "success")]

(***************************************************************************)
(* Resolving a scanned number: the member of that number, else the family  *)
(* member of that number JOINed with its primary member                    *)
(***************************************************************************)
MemberByNumber(d, member_number) ==
    FetchOne({r \in d.members : r.member_number = member_number})

\* family_members fm JOIN members m ON fm.primary_member_id = m.id WHERE fm.member_number = ?
FamilyJoin(d, member_number) ==
    {[fm |-> fm, m |-> m] : fm \in {f \in d.family_members : f.member_number = member_number},
                            m \in d.members}

\* The query without its WHERE clause: any family member answers for the number
FamilyByNumberUnfiltered(d, member_number) ==
    LET rows == {j \in [fm : d.family_members, m : d.members] : j.fm.primary_member_id = j.m.id}
    IN IF rows = {} THEN None ELSE CHOOSE j \in rows : TRUE

FamilyByNumber(d, member_number) ==
    LET rows == {j \in FamilyJoin(d, member_number) : j.fm.primary_member_id = j.m.id}
    IN IF rows = {} THEN None ELSE CHOOSE j \in rows : TRUE

AttendanceRow(member_number, member_name, event_name, scanned_by, t, points_awarded, status) ==
    [member_number |-> member_number,
     member_name |-> member_name,
     event_name |-> event_name,
     scanned_by |-> scanned_by,
     timestamp |-> t,
     points_awarded |-> points_awarded,
     status |-> status]

(***************************************************************************)
(* scan: POST /api/scan                                                    *)
(***************************************************************************)
\* status == 'active' and fromisoformat(expiry_date) > now; `and` does not parse the date
\* of a member whose status is not 'active'
ScanRaises(member) == member.status = "active" /\ ~ParsesAsDate(member.expiry_date)

\* The comparison written as >=: a membership is still good at the instant it runs out
ScanIsActiveNotStrict(member, t) ==
    /\ member.status = "active"
    /\ ParsesAsDate(member.expiry_date)
    /\ fromisoformat(member.expiry_date) >= t

ScanIsActive(member, t) ==
    /\ member.status = "active"
    /\ ParsesAsDate(member.expiry_date)
    /\ fromisoformat(member.expiry_date) > t

\* UPDATE members SET points = points + ? WHERE member_number = ? OR id = (SELECT
\* primary_member_id FROM family_members WHERE member_number = ?)
ScanAwardPoints(members, family_members, points_awarded, scanned) ==
    LET owners == {f.primary_member_id : f \in {g \in family_members : g.member_number = scanned}}
    IN {IF r.member_number = scanned \/ r.id \in owners
        THEN [r EXCEPT !.points = @ + points_awarded]
        ELSE r : r \in members}

scan(d, t, token, scanned_member_number, event_name) ==
    LET user == verify_token(d, t, token)
        found == MemberByNumber(d, scanned_member_number)
        family_result == FamilyByNumber(d, scanned_member_number)
        member == IF found # None THEN found ELSE family_result.m
        member_name == IF found # None
                       THEN FullName(found.first_name, found.surname)
                       ELSE family_result.fm.name
        is_active == ScanIsActive(member, t)
        points_awarded == IF is_active THEN PointsPerScan ELSE 0
        status == IF is_active THEN "granted" ELSE "denied"
        row == AttendanceRow(scanned_member_number, member_name, event_name, user.email,
                             t, points_awarded, status)
    IN IF ~IsAdminUser(user)
       THEN [db |-> d, resp |-> Response(401, "Unauthorized - Admin access required")]
       ELSE IF found = None /\ family_result = None
       THEN [db |-> d, resp |-> Response(404, "Member not found")]
       ELSE IF ScanRaises(member)
       THEN [db |-> d, resp |-> Response(500, "Scan failed")]
       ELSE [db |-> [d EXCEPT !.attendance = Append(@, row),
                              !.members = IF is_active
                                          THEN ScanAwardPoints(@, d.family_members, points_awarded,
                                                               scanned_member_number)
                                          ELSE @],
             resp |-> [code |-> 200,
                       text |-> IF is_active THEN "Access Granted" ELSE "Membership Expired",
                       status |-> status,
                       member_name |-> member_name,
                       points_awarded |-> points_awarded]]

(***************************************************************************)
(* scan_qr: POST /api/scan-qr                                              *)
(***************************************************************************)
\* The UPDATE with the sign turned: points = points - ?
ScanQrTakePoints(members, points_awarded, member_number) ==
    {IF r.member_number = member_number
     THEN [r EXCEPT !.points = @ - points_awarded]
     ELSE r : r \in members}

\* UPDATE members SET points = points + ? WHERE member_number = ?
ScanQrAwardPoints(members, points_awarded, member_number) ==
    {IF r.member_number = member_number
     THEN [r EXCEPT !.points = @ + points_awarded]
     ELSE r : r \in members}

scan_qr(d, t, token, scanned, event_name) ==
    LET user == verify_token(d, t, token)
        member_number == strip(scanned)
        member == MemberByNumber(d, member_number)
        family_member == FamilyByNumber(d, member_number)
        member_name == IF member # None
                       THEN FullName(member.first_name, member.surname)
                       ELSE family_member.fm.name
        status == IF member # None THEN member.status ELSE family_member.m.status
        expiry_date == IF member # None THEN member.expiry_date ELSE family_member.m.expiry_date
        points_awarded == PointsPerScan
        row == AttendanceRow(member_number, member_name, strip(event_name),
                             FullName(Str(user.first_name), Str(user.surname)),
                             t, points_awarded, "present")
    IN IF ~IsAdminUser(user)
       THEN [db |-> d, resp |-> Response(401, "Unauthorized - Admin access required")]
       ELSE IF member_number = <<>>
       THEN [db |-> d, resp |-> Response(400, "Member number required")]
       ELSE IF member = None /\ family_member = None
       THEN [db |-> d, resp |-> Response(404, "Member not found")]
       ELSE IF status # "active"
       THEN [db |-> d, resp |-> Response(400, "Membership is not active")]
       ELSE IF TextLessThanDate(expiry_date, Today(t))
       THEN [db |-> d, resp |-> Response(400, "Membership has expired")]
       ELSE [db |-> [d EXCEPT !.attendance = Append(@, row),
                              !.members = IF member # None
                                          THEN ScanQrAwardPoints(@, points_awarded, member_number)
                                          ELSE @],
             resp |-> [code |-> 200,
                       text |-> "success",
                       status |-> "present",
                       member_name |-> member_name,
                       points_awarded |-> points_awarded]]

(***************************************************************************)
(* The admin's read-only requests                                          *)
(***************************************************************************)
\* get_member_info: GET /api/member-info/<member_number>
get_member_info(d, t, token, member_number) ==
    LET user == verify_token(d, t, token)
        found == MemberByNumber(d, member_number)
        family_result == FamilyByNumber(d, member_number)
        member == IF found # None THEN found ELSE family_result.m
        member_name == IF found # None
                       THEN FullName(found.first_name, found.surname)
                       ELSE family_result.fm.name
    IN IF ~IsAdminUser(user)
       THEN [db |-> d, resp |-> Response(401, "Unauthorized - Admin access required")]
       ELSE IF found = None /\ family_result = None
       THEN [db |-> d, resp |-> [code |-> 200, text |-> "Member not found", found |-> FALSE]]
       ELSE IF ScanRaises(member)
       THEN [db |-> d, resp |-> Response(500, "error")]
       ELSE [db |-> d,
             resp |-> [code |-> 200, text |-> "found", found |-> TRUE,
                       member_name |-> member_name,
                       is_active |-> ScanIsActive(member, t),
                       expiry_date |-> member.expiry_date,
                       status |-> member.status]]

\* get_all_members: GET /api/admin/members
get_all_members(d, t, token) ==
    IF ~IsAdminUser(verify_token(d, t, token))
    THEN [db |-> d, resp |-> Unauthorized]
    ELSE [db |-> d,
          resp |-> [code |-> 200, text |-> "members",
                    members |-> {[member |-> m,
                                  family_members |-> {f \in d.family_members :
                                                         f.primary_member_id = m.id}] :
                                 m \in d.members}]]

\* get_attendance: GET /api/admin/attendance, with a limit above the number of rows
get_attendance(d, t, token) ==
    IF ~IsAdminUser(verify_token(d, t, token))
    THEN [db |-> d, resp |-> Unauthorized]
    ELSE [db |-> d, resp |-> [code |-> 200, text |-> "attendance", attendance |-> d.attendance]]

\* status = 'active' AND expiry_date <= threshold AND expiry_date > now
ExpiringSoon(d, t) ==
    {m \in d.members : /\ m.status = "active"
                       /\ ~TextAfterInstant(m.expiry_date, t + ExpiringDays * TicksPerDay)
                       /\ TextAfterInstant(m.expiry_date, t)}

RECURSIVE SumPoints(_)
SumPoints(members) ==
    IF members = {} THEN 0
    ELSE LET m == CHOOSE x \in members : TRUE
         IN m.points + SumPoints(members \ {m})

\* get_admin_stats: GET /api/admin/stats (the counts by membership type are left out)
get_admin_stats(d, t, token) ==
    IF ~IsAdminUser(verify_token(d, t, token))
    THEN [db |-> d, resp |-> Unauthorized]
    ELSE [db |-> d,
          resp |-> [code |-> 200, text |-> "stats",
                    active_members |-> Cardinality({m \in d.members : m.status = "active"}),
                    expiring_soon |-> Cardinality(ExpiringSoon(d, t)),
                    today_attendance |-> Cardinality({i \in 1..Len(d.attendance) :
                                                Today(d.attendance[i].timestamp) = Today(t)}),
                    total_points |-> SumPoints(d.members)]]

\* get_expiring_members: GET /api/admin/expiring-members
get_expiring_members(d, t, token) ==
    IF ~IsAdminUser(verify_token(d, t, token))
    THEN [db |-> d, resp |-> Unauthorized]
    ELSE [db |-> d,
          resp |-> [code |-> 200, text |-> "expiring_members",
                    expiring_members |-> ExpiringSoon(d, t)]]

(***************************************************************************)
(* delete_member: DELETE /api/admin/delete-member/<member_number>.  The    *)
(* five DELETE statements run in one SQLite transaction, in this order.    *)
(***************************************************************************)
\* DELETE FROM family_members WHERE primary_member_id = ?
DeleteFamilyMembers(d, member_id) ==
    [d EXCEPT !.family_members = {f \in @ : f.primary_member_id # member_id}]

\* DELETE FROM attendance WHERE member_number IN (...): the other rows, in their order
RECURSIVE DeleteRows(_, _)
DeleteRows(attendance, numbers) ==
    IF attendance = <<>> THEN <<>>
    ELSE IF Head(attendance).member_number \in numbers
    THEN DeleteRows(Tail(attendance), numbers)
    ELSE <<Head(attendance)>> \o DeleteRows(Tail(attendance), numbers)

\* The DELETE without its WHERE clause
DeleteAttendanceOfAll(d, member_number) == [d EXCEPT !.attendance = <<>>]

\* DELETE FROM attendance WHERE member_number = ?
DeleteAttendanceOfMember(d, member_number) ==
    [d EXCEPT !.attendance = DeleteRows(@, {member_number})]

\* DELETE FROM attendance WHERE member_number IN (SELECT member_number FROM family_members
\* WHERE primary_member_id = ?)
DeleteAttendanceOfFamily(d, member_id) ==
    LET numbers == {f.member_number : f \in {g \in d.family_members : g.primary_member_id = member_id}}
    IN [d EXCEPT !.attendance = DeleteRows(@, numbers)]

\* DELETE FROM sessions WHERE email = ?
DeleteSessions(d, member_email) ==
    [d EXCEPT !.sessions = {s \in @ : s.email # member_email}]

\* DELETE FROM members WHERE member_number = ?
DeleteMemberRow(d, member_number) ==
    [d EXCEPT !.members = {r \in @ : r.member_number # member_number}]

\* The statements of the cascade, by position
CascadeLength == 5

CascadeStep(d, i, member_id, member_number, member_email) ==
    CASE i = 1 -> DeleteFamilyMembers(d, member_id)
      [] i = 2 -> DeleteAttendanceOfMember(d, member_number)
      [] i = 3 -> DeleteAttendanceOfFamily(d, member_id)
      [] i = 4 -> DeleteSessions(d, member_email)
      [] i = 5 -> DeleteMemberRow(d, member_number)

RECURSIVE CascadeUpTo(_, _, _, _, _)
CascadeUpTo(d, i, member_id, member_number, member_email) ==
    IF i = 0 THEN d
    ELSE CascadeStep(CascadeUpTo(d, i - 1, member_id, member_number, member_email),
                     i, member_id, member_number, member_email)

\* The handler without the check of the caller's own account
IsOwnAccountNever(member, user) == FALSE

\* if member_email == user['email']
IsOwnAccount(member, user) == member.email = user.email

\* The whole handler, when no other request runs between its statements
delete_member(d, t, token, member_number) ==
    LET user == verify_token(d, t, token)
        member == MemberByNumber(d, member_number)
    IN IF ~IsAdminUser(user)
       THEN [db |-> d, resp |-> Response(401, "Unauthorized - Admin access required")]
       ELSE IF member = None
       THEN [db |-> d, resp |-> Response(404, "Member not found")]
       ELSE IF IsOwnAccount(member, user)
       THEN [db |-> d, resp |-> Response(400, "Cannot delete your own account")]
       ELSE [db |-> CascadeUpTo(d, CascadeLength, member.id, member_number, member.email),
             resp |-> [code |-> 200, text |-> "success", deleted_member |-> member_number]]

(***************************************************************************)
(* change_password: POST /api/member/change-password                       *)
(***************************************************************************)
\* The UPDATE that matches no row
SetPasswordHashOfNobody(members, new_password_hash, email) == members

\* UPDATE members SET password_hash = ? WHERE email = ?
SetPasswordHash(members, new_password_hash, email) ==
    {IF r.email = email THEN [r EXCEPT !.password_hash = new_password_hash] ELSE r : r \in members}

\* The handler without the check of the length
TooShortNever(new_password) == FALSE

\* if len(new_password) < 6
TooShort(new_password) == Len(new_password) < MinPasswordLen

change_password(d, t, token, current, new) ==
    LET user == verify_token(d, t, token)
        current_password == strip(current)
        new_password == strip(new)
        result == FetchOne({r \in d.members : r.email = user.email})
    IN IF user = None
       THEN [db |-> d, resp |-> Unauthorized]
       ELSE IF current_password = <<>> \/ new_password = <<>>
       THEN [db |-> d, resp |-> Response(400, "Both current and new password required")]
       ELSE IF TooShort(new_password)
       THEN [db |-> d, resp |-> Response(400, "New password must be at least 6 characters")]
       ELSE IF result = None \/ result.password_hash # hash_password(current_password)
       THEN [db |-> d, resp |-> Response(401, "Current password is incorrect")]
       ELSE [db |-> [d EXCEPT !.members =
                        SetPasswordHash(@, hash_password(new_password), user.email)],
             resp |-> Response(200, "Password changed successfully")]

(***************************************************************************)
(* create_admin: POST /api/admin/create-admin                              *)
(***************************************************************************)
create_admin(d, t, token, data) ==
    LET user == verify_token(d, t, token)
        email == lower(strip(data.email))
        password == strip(data.password)
        first_name == strip(data.first_name)
        surname == strip(data.surname)
        member_number == strip(data.member_number)
        row == [id |-> d.member_seq + 1,
                member_number |-> member_number,
                first_name |-> first_name,
                surname |-> surname,
                email |-> email,
                phone |-> <<>>,
                password_hash |-> hash_password(password),
                expiry_date |-> DefaultExpiry,
                status |-> "active",
                points |-> 0,
                is_admin |-> 1]
    IN IF ~IsAdminUser(user)
       THEN [db |-> d, resp |-> Response(401, "Unauthorized - Admin access required")]
       ELSE IF <<>> \in {email, password, first_name, surname, member_number}
       THEN [db |-> d, resp |-> Response(400, "All fields required")]
       ELSE IF \E r \in d.members : r.email = email
       THEN [db |-> d, resp |-> Response(400, "Email already exists")]
       ELSE IF \E r \in d.members : r.member_number = member_number
       THEN [db |-> d, resp |-> Response(400, "Member number already exists")]
       ELSE [db |-> [d EXCEPT !.members = @ \cup {row}, !.member_seq = @ + 1],
             resp |-> Response(200, "Admin account created")]

(***************************************************************************)
(* import_excel: POST /api/import-excel                                    *)
(***************************************************************************)
\* The characters of the model's texts, in the order of their codes: SQLite's BINARY
\* collation compares texts byte by byte
Alphabet ==
    <<" ", "!", "0", "1", "2", "3", "4", "5", "6", "7", "8", "9", "@",
      "A", "B", "D", "K", "L", "M", "N", "V", "X",
      "a", "b", "d", "e", "i", "k", "m", "n", "o", "p", "r", "s", "w", "x">>

Ord(c) == CHOOSE i \in 1..Len(Alphabet) : Alphabet[i] = c

RECURSIVE TextLess(_, _)
TextLess(a, b) ==
    IF b = <<>> THEN FALSE
    ELSE IF a = <<>> THEN TRUE
    ELSE IF Head(a) # Head(b) THEN Ord(Head(a)) < Ord(Head(b))
    ELSE TextLess(Tail(a), Tail(b))

\* SELECT member_number FROM members ORDER BY member_number DESC LIMIT 1
LastMemberNumber(d) ==
    IF d.members = {} THEN NullText
    ELSE (CHOOSE r \in d.members :
            \A q \in d.members : ~TextLess(r.member_number, q.member_number)).member_number

\* result[0].replace('M', '')
RECURSIVE RemoveM(_)
RemoveM(text) ==
    IF text = <<>> THEN <<>>
    ELSE IF Head(text) = "M" THEN RemoveM(Tail(text))
    ELSE <<Head(text)>> \o RemoveM(Tail(text))

\* int(text) raises ValueError unless the text, stripped, is decimal digits
IntParses(text) == isdigit(strip(text))

RECURSIVE DigitsValue(_)
DigitsValue(ds) ==
    IF ds = <<>> THEN 0
    ELSE 10 * DigitsValue(SubSeq(ds, 1, Len(ds) - 1)) + DigitValue(ds[Len(ds)])

int(text) == DigitsValue(strip(text))

RECURSIVE str(_)
str(n) == IF n < 10 THEN <<Digits[n + 1]>> ELSE str(n \div 10) \o <<Digits[(n % 10) + 1]>>

RECURSIVE zfill(_, _)
zfill(text, width) == IF Len(text) >= width THEN text ELSE zfill(<<"0">> \o text, width)

\* f"M{str(next_number).zfill(4)}"
FormatMemberNumber(next_number) == <<"M">> \o zfill(str(next_number), MemberNumberWidth)

\* The number the import starts from; raised stands for the ValueError of int()
FirstNextNumber(d) ==
    LET last == LastMemberNumber(d)
    IN IF last = NullText \/ last = <<>> THEN [raised |-> FALSE, value |-> FirstMemberNumber]
       ELSE IF IntParses(RemoveM(last)) THEN [raised |-> FALSE, value |-> int(RemoveM(last)) + 1]
       ELSE [raised |-> TRUE, value |-> 0]

\* str(is_admin).lower() in ['yes', 'true', '1', 'admin']
IsAdminFlag(text) == text \in {"yes", "true", "1", "admin"}

\* The default password of an imported member: the phone if it looks like one, else the email
DefaultPassword(email, phone) ==
    IF phone # <<>> /\ Len(phone) = PhoneLen /\ startswith(phone, "0") THEN phone ELSE email

\* The inner loop: one INSERT per family member, a failing INSERT is reported and skipped
RECURSIVE ImportFamily(_, _, _)
ImportFamily(st, member_id, family_members) ==
    IF family_members = <<>> THEN st
    ELSE LET fam == Head(family_members)
             taken == \E f \in st.db.family_members : f.member_number = fam.member_number
             row == [primary_member_id |-> member_id,
                     member_number |-> fam.member_number,
                     name |-> fam.name]
         IN ImportFamily(
                IF taken
                THEN [st EXCEPT !.errors = @ + 1]
                ELSE [st EXCEPT !.db.family_members = @ \cup {row}],
                member_id, Tail(family_members))

\* One pass of the outer loop
ImportRow(st, member_data) ==
    LET email == lower(strip(member_data.email))
        phone == strip(member_data.phone)
        existing == {r \in st.db.members : r.email = email \/ (r.phone = phone /\ phone # <<>>)}
        member_number == FormatMemberNumber(st.next_number)
        member_id == st.db.member_seq + 1
        row == [id |-> member_id,
                member_number |-> member_number,
                first_name |-> strip(member_data.first_name),
                surname |-> strip(member_data.surname),
                email |-> email,
                phone |-> phone,
                password_hash |-> hash_password(DefaultPassword(email, phone)),
                expiry_date |-> member_data.expiry_date,
                status |-> member_data.status,
                points |-> 0,
                is_admin |-> IF IsAdminFlag(member_data.is_admin) THEN 1 ELSE 0]
        numbered == [st EXCEPT !.next_number = @ + 1]
    IN IF email = <<>>
       THEN [st EXCEPT !.errors = @ + 1]
       ELSE IF existing # {}
       THEN [st EXCEPT !.skipped = @ + 1, !.errors = @ + 1]
       ELSE IF \E r \in st.db.members : r.member_number = member_number
       THEN [numbered EXCEPT !.errors = @ + 1]
       ELSE LET inserted == [numbered EXCEPT !.db.members = @ \cup {row},
                                             !.db.member_seq = member_id]
                done == ImportFamily(inserted, member_id, member_data.family_members)
            IN [done EXCEPT !.imported = @ + 1]

RECURSIVE ImportRows(_, _)
ImportRows(st, data) ==
    IF data = <<>> THEN st ELSE ImportRows(ImportRow(st, Head(data)), Tail(data))

import_excel(d, t, token, data) ==
    LET user == verify_token(d, t, token)
        first == FirstNextNumber(d)
        st == ImportRows([db |-> d, next_number |-> first.value,
                          imported |-> 0, skipped |-> 0, errors |-> 0], data)
    IN IF ~IsAdminUser(user)
       THEN [db |-> d, resp |-> Response(401, "Unauthorized - Admin access required")]
       ELSE IF first.raised
       THEN [db |-> d, resp |-> Response(500, "Internal server error")]
       ELSE [db |-> st.db,
             resp |-> [code |-> 200, text |-> "success", imported |-> st.imported,
                       skipped |-> st.skipped, errors |-> st.errors]]

(***************************************************************************)
(* The requests the model sends                                            *)
(***************************************************************************)
\* The instants at which requests arrive: the midnights of the first days, and the instant
\* at which a session created at tick 0 expires
Instants == {k * TicksPerDay : k \in 0..Horizon} \cup {SessionTicks}

\* Authorization headers: none, every token that can be issued, and one that never is
TokenInputs == 0..(MaxIssued + 1)

EmailA == <<"a", "@", "x">>

EmailB == <<"b", "@", "x">>

PasswordB == <<"p", "w", "0", "0", "0", "b">>

NewPassword == <<"n", "e", "w", "p", "w", "1">>

ShortPassword == <<"s", "h", "o", "r", "t">>

KidNumber == <<"D", "1">>

Kid(member_number) == [member_number |-> member_number, name |-> <<"K", "i", "d">>]

ExpiryInputs == {DateOnly(ImportExpiryDay), NotADate(<<>>)}

ImportRowInputs ==
    [email : {<<"A", "@", "x", " ">>},
     phone : {<<>>},
     first_name : {<<"A">>},
     surname : {<<"X">>},
     expiry_date : ExpiryInputs,
     status : {"active", "inactive"},
     is_admin : {""},
     family_members : {<<>>, <<Kid(KidNumber)>>}]

RECURSIVE SeqsUpTo(_, _)
SeqsUpTo(S, n) ==
    IF n = 0 THEN {<<>>}
    ELSE LET shorter == SeqsUpTo(S, n - 1)
         IN shorter \cup {Append(q, x) : q \in {r \in shorter : Len(r) = n - 1}, x \in S}

ImportInputs == SeqsUpTo(ImportRowInputs, MaxImportRows) \ {<<>>}

CreateAdminInputs ==
    [email : {<<" ", "B", "@", "X">>, default_admin_email},
     password : {PasswordB},
     first_name : {<<"B">>},
     surname : {<<"X">>},
     member_number : {<<"M", "9", "9", "9", "9">>, DefaultAdminNumber}]

LoginEmailInputs == {default_admin_email, EmailA, <<"B", "@", "x", " ">>, <<>>}

PasswordInputs ==
    {default_admin_password, EmailA, PasswordB, NewPassword, ShortPassword,
     <<" ">> \o ShortPassword, NewPassword \o <<" ">>, <<>>}

\* The numbers a scanner sends: every number in the store, the same with a blank in front,
\* a number nobody has, and the empty text
MemberNumbers(d) == {r.member_number : r \in d.members}

FamilyNumbers(d) == {f.member_number : f \in d.family_members}

UnknownNumber == <<"M", "7">>

ScanInputs(d) ==
    LET stored == MemberNumbers(d) \cup FamilyNumbers(d)
    IN stored \cup {<<" ">> \o n : n \in stored} \cup {UnknownNumber, <<>>}

EventInputs == {<<"e">>}

(***************************************************************************)
(* The state machine.  A request that fails leaves the store as it is, so  *)
(* the actions send the requests of a logged-in client; the properties     *)
(* range over all requests.                                                *)
(***************************************************************************)
Workers == 1..NumWorkers

\* A worker between two delete-member requests; code is the status of its last response
Done(code) == [pc |-> "idle", code |-> code]

Idle == Done(0)

\* SQLite lets one connection write at a time: the first DELETE of a cascade opens the
\* implicit transaction and takes the write lock, commit or close gives it back.  A
\* statement of another connection that has to write waits, and fails when the wait times
\* out, so no other request writes while the lock is held.
WriteLocked == \E w \in DOMAIN reqs : reqs[w].pc = "cascade" /\ reqs[w].step > 0

Init ==
    /\ db = init_db
    /\ now = 0
    /\ issued = 0
    /\ reqs = [w \in 1..NumWorkers |-> Idle]

\* Time passes between two requests
Tick ==
    /\ \E t \in Instants : t > now /\ now' = t
    /\ UNCHANGED <<db, issued, reqs>>

\* secrets.token_urlsafe(32): a token that was never issued before
generate_token == issued + 1

IssuedTokens == 1..issued

LoginUpTo(max) ==
    /\ ~WriteLocked
    /\ issued < max
    /\ \E email \in LoginEmailInputs, password \in PasswordInputs :
          LET r == login(db, now, generate_token, email, password)
          IN /\ r.resp.code = 200
             /\ db' = r.db
             /\ issued' = issued + 1
    /\ UNCHANGED <<now, reqs>>

Login == LoginUpTo(MaxIssued)

Logout ==
    /\ ~WriteLocked
    /\ \E token \in IssuedTokens : db' = logout(db, token).db
    /\ UNCHANGED <<now, issued, reqs>>

Scan ==
    /\ ~WriteLocked
    /\ Len(db.attendance) < MaxAttendance
    /\ \E token \in IssuedTokens, n \in ScanInputs(db), e \in EventInputs :
          db' = scan(db, now, token, n, e).db
    /\ UNCHANGED <<now, issued, reqs>>

ScanQr ==
    /\ ~WriteLocked
    /\ Len(db.attendance) < MaxAttendance
    /\ \E token \in IssuedTokens, n \in ScanInputs(db), e \in EventInputs :
          db' = scan_qr(db, now, token, n, e).db
    /\ UNCHANGED <<now, issued, reqs>>

CreateAdmin ==
    /\ ~WriteLocked
    /\ db.member_seq < MaxMemberSeq
    /\ \E token \in IssuedTokens, data \in CreateAdminInputs :
          db' = create_admin(db, now, token, data).db
    /\ UNCHANGED <<now, issued, reqs>>

ImportExcelOf(inputs) ==
    /\ ~WriteLocked
    /\ \E token \in IssuedTokens, data \in inputs :
          /\ db.member_seq + Len(data) <= MaxMemberSeq
          /\ db' = import_excel(db, now, token, data).db
    /\ UNCHANGED <<now, issued, reqs>>

ImportExcel == ImportExcelOf(ImportInputs)

DeleteMember ==
    /\ ~WriteLocked
    /\ \E token \in IssuedTokens, n \in MemberNumbers(db) :
          db' = delete_member(db, now, token, n).db
    /\ UNCHANGED <<now, issued, reqs>>

ChangePassword ==
    /\ ~WriteLocked
    /\ \E token \in IssuedTokens, current \in PasswordInputs,
          new \in {NewPassword, NewPassword \o <<" ">>} :
          db' = change_password(db, now, token, current, new).db
    /\ UNCHANGED <<now, issued, reqs>>

(***************************************************************************)
(* delete_member, statement by statement, with other requests in between.  *)
(* db is the committed store, which is what every other connection reads;  *)
(* tx is the store as the deleting connection sees it inside its           *)
(* transaction.                                                            *)
(***************************************************************************)
\* The statements write through to the store at once, as a connection in autocommit mode
DirtyStore(committed, tx) == tx

\* What the other connections read after a statement of an open transaction: the cascade
\* does not commit between its statements
CommittedStore(committed, tx) == committed

\* verify_token(token), and the admin check
DeleteVerify(w) ==
    /\ reqs[w].pc = "idle"
    /\ \E token \in IssuedTokens, n \in MemberNumbers(db) \cup {UnknownNumber} :
          LET user == verify_token(db, now, token)
          IN /\ IsAdminUser(user)
             /\ reqs' = [reqs EXCEPT ![w] = [pc |-> "select", user |-> user, member_number |-> n]]
    /\ UNCHANGED <<db, now, issued>>

\* SELECT id, first_name, surname, email FROM members WHERE member_number = ?, and the two
\* refusals
DeleteSelect(w) ==
    /\ reqs[w].pc = "select"
    /\ LET member == MemberByNumber(db, reqs[w].member_number)
       IN reqs' = [reqs EXCEPT ![w] =
               IF member = None THEN Done(404)
               ELSE IF IsOwnAccount(member, reqs[w].user) THEN Done(400)
               ELSE [pc |-> "cascade",
                     member_number |-> reqs[w].member_number,
                     member |-> [id |-> member.id, first_name |-> member.first_name,
                                 surname |-> member.surname, email |-> member.email],
                     step |-> 0,
                     tx |-> None]]
    /\ UNCHANGED <<db, now, issued>>

\* The next DELETE of the cascade; the first one waits for the write lock
DeleteStatement(w) ==
    /\ reqs[w].pc = "cascade"
    /\ reqs[w].step < CascadeLength
    /\ reqs[w].step = 0 => ~WriteLocked
    /\ LET r == reqs[w]
           before == IF r.step = 0 THEN db ELSE r.tx
           after == CascadeStep(before, r.step + 1, r.member.id, r.member_number, r.member.email)
       IN /\ reqs' = [reqs EXCEPT ![w] = [r EXCEPT !.step = @ + 1, !.tx = after]]
          /\ db' = CommittedStore(db, after)
    /\ UNCHANGED <<now, issued>>

\* conn.commit()
DeleteCommit(w) ==
    /\ reqs[w].pc = "cascade"
    /\ reqs[w].step = CascadeLength
    /\ db' = reqs[w].tx
    /\ reqs' = [reqs EXCEPT ![w] = Done(200)]
    /\ UNCHANGED <<now, issued>>

\* A statement or the commit raises (the database is locked, the disk fails): the except
\* branch closes the connection without a commit, which rolls the transaction back
DeleteRaise(w) ==
    /\ reqs[w].pc \in {"select", "cascade"}
    /\ reqs' = [reqs EXCEPT ![w] = Done(500)]
    /\ UNCHANGED <<db, now, issued>>

\* Deletions in flight while an admin imports and scans
NextTxn ==
    \/ Login
    \/ ImportExcel
    \/ Scan
    \/ \E w \in Workers : DeleteVerify(w)
    \/ \E w \in Workers : DeleteSelect(w)
    \/ \E w \in Workers : DeleteStatement(w)
    \/ \E w \in Workers : DeleteCommit(w)
    \/ \E w \in Workers : DeleteRaise(w)

SpecTxn == Init /\ [][NextTxn]_vars

\* The attendance recorder: an admin imports members, scans them and deletes them
NextScan ==
    \/ Tick
    \/ Login
    \/ Scan
    \/ ScanQr
    \/ ImportExcel
    \/ DeleteMember

SpecScan == Init /\ [][NextScan]_vars

\* Sessions and passwords
NextAuth ==
    \/ Tick
    \/ Login
    \/ Logout
    \/ CreateAdmin
    \/ ImportExcel
    \/ DeleteMember
    \/ ChangePassword

SpecAuth == Init /\ [][NextAuth]_vars

\* Sessions: admins log in more than once, log out, create and delete one another
NextSession ==
    \/ Tick
    \/ LoginUpTo(MaxLogins)
    \/ Logout
    \/ CreateAdmin
    \/ DeleteMember

SpecSession == Init /\ [][NextSession]_vars

\* Imported members with phone numbers: one a phone as login takes it (10 digits, the
\* first a 0), one of 10 digits that begins otherwise
GoodPhone == <<"0", "1", "2", "3", "4", "5", "6", "7", "8", "9">>

OddPhone == <<"1", "2", "3", "4", "5", "6", "7", "8", "9", "0">>

PhoneRowInputs ==
    [email : {<<"A", "@", "x", " ">>},
     phone : {<<>>, GoodPhone, OddPhone},
     first_name : {<<"A">>},
     surname : {<<"X">>},
     expiry_date : {DateOnly(ImportExpiryDay)},
     status : {"active", "inactive"},
     is_admin : {""},
     family_members : {<<>>}]

PhoneImportInputs == SeqsUpTo(PhoneRowInputs, MaxImportRows) \ {<<>>}

\* What a client types into the login form
LoginIdInputs ==
    {default_admin_email, EmailA, <<"A", "@", "X">>, <<" ", "a", "@", "x">>, EmailB,
     GoodPhone, GoodPhone \o <<" ">>, OddPhone, <<>>, <<" ">>}

LoginPasswordInputs ==
    {default_admin_password, EmailA, EmailA \o <<" ">>, GoodPhone, OddPhone, NewPassword, <<>>}

\* Logging in by email and by phone
NextLogin ==
    \/ Tick
    \/ LoginUpTo(MaxLogins)
    \/ ImportExcelOf(PhoneImportInputs)
    \/ DeleteMember

SpecLogin == Init /\ [][NextLogin]_vars

\* Accounts: admins are created with numbers of any shape, members are imported with
\* family members of any identifier, and both are deleted again.  A request that would
\* take the members table beyond max_seq rows ever inserted is not sent.
OddNumber == <<"X", "1">>

AccountAdminInputs ==
    [email : {<<" ", "B", "@", "X">>, default_admin_email},
     password : {PasswordB},
     first_name : {<<"B">>},
     surname : {<<"X">>},
     member_number : {<<"M", "9", "9", "9", "9">>, DefaultAdminNumber, KidNumber, OddNumber}]

AccountRowInputs ==
    [email : {<<"A", "@", "x", " ">>, <<"a", "@", "x">> \o <<"2">>},
     phone : {<<>>},
     first_name : {<<"A">>},
     surname : {<<"X">>},
     expiry_date : {DateOnly(ImportExpiryDay)},
     status : {"active"},
     is_admin : {""},
     family_members : {<<>>, <<Kid(KidNumber)>>, <<Kid(DefaultAdminNumber)>>}]

AccountImportInputs == SeqsUpTo(AccountRowInputs, MaxImportRows) \ {<<>>}

CreateAdminOf(inputs, max_seq) ==
    /\ ~WriteLocked
    /\ \E token \in IssuedTokens, data \in inputs :
          LET r == create_admin(db, now, token, data)
          IN r.db.member_seq <= max_seq /\ db' = r.db
    /\ UNCHANGED <<now, issued, reqs>>

ImportAttempt(inputs, max_seq) ==
    /\ ~WriteLocked
    /\ \E token \in IssuedTokens, data \in inputs :
          LET r == import_excel(db, now, token, data)
          IN r.db.member_seq <= max_seq /\ db' = r.db
    /\ UNCHANGED <<now, issued, reqs>>

NextAccounts ==
    \/ LoginUpTo(MaxLogins)
    \/ CreateAdminOf(AccountAdminInputs, MaxAccounts)
    \/ ImportAttempt(AccountImportInputs, MaxAccounts)
    \/ DeleteMember

SpecAccounts == Init /\ [][NextAccounts]_vars

\* Scans where an import may have stored a family member under any identifier, a stored
\* Member's number included
NextFamily ==
    \/ Tick
    \/ Login
    \/ ImportAttempt(AccountImportInputs, MaxMemberSeq)
    \/ Scan
    \/ DeleteMember

SpecFamily == Init /\ [][NextFamily]_vars

(***************************************************************************)
(* The threaded server: login and delete_member run statement by statement *)
(* on their own connections, so one request reads the store between the    *)
(* statements of another.                                                  *)
(***************************************************************************)
Threads == 1..NumThreads

InitThreads ==
    /\ db = init_db
    /\ now = 0
    /\ issued = 0
    /\ reqs = [w \in Threads |-> Idle]

\* Logins that have read their member and not yet inserted their session
LoginsInFlight == {w \in DOMAIN reqs : reqs[w].pc = "insert"}

\* login up to the status check: the SELECT of the member, which takes no write lock
LoginSelect(w) ==
    /\ reqs[w].pc = "idle"
    /\ issued + Cardinality(LoginsInFlight) < MaxLogins
    /\ \E email \in LoginEmailInputs, password \in PasswordInputs :
          LET r == login(db, now, generate_token, email, password)
          IN /\ r.resp.code = 200
             /\ reqs' = [reqs EXCEPT ![w] =
                    [pc |-> "insert", member |-> MemberByNumber(db, r.resp.member_number)]]
    /\ UNCHANGED <<db, now, issued>>

\* generate_token(), INSERT INTO sessions with the member read before, conn.commit()
LoginInsert(w) ==
    /\ reqs[w].pc = "insert"
    /\ ~WriteLocked
    /\ db' = [db EXCEPT !.sessions = @ \cup {NewSession(reqs[w].member, generate_token, now)}]
    /\ issued' = issued + 1
    /\ reqs' = [reqs EXCEPT ![w] = Done(200)]
    /\ UNCHANGED now

NextThreads ==
    \/ \E w \in Threads : LoginSelect(w)
    \/ \E w \in Threads : LoginInsert(w)
    \/ Logout
    \/ CreateAdmin
    \/ \E w \in Threads : DeleteVerify(w)
    \/ \E w \in Threads : DeleteSelect(w)
    \/ \E w \in Threads : DeleteStatement(w)
    \/ \E w \in Threads : DeleteCommit(w)
    \/ \E w \in Threads : DeleteRaise(w)

SpecThreads == InitThreads /\ [][NextThreads]_vars

\* Authorization headers where MaxLogins tokens are issued
SessionTokenInputs == 0..(MaxLogins + 1)

(***************************************************************************)
(* Properties                                                              *)
(***************************************************************************)
\* The requests of an admin: the token validates and its session has the role admin
IsAdminToken(token) == IsAdminUser(verify_token(db, now, token))

\* The store after the request has one more attendance row, and the rows before it are kept
AppendsOneRow(after) ==
    /\ Len(after.attendance) = Len(db.attendance) + 1
    /\ SubSeq(after.attendance, 1, Len(db.attendance)) = db.attendance

LastRow(after) == after.attendance[Len(after.attendance)]

\* The member of the given id in a store
MemberById(d, id) == CHOOSE r \in d.members : r.id = id

\* Active, as the specification defines it: status 'active' and an expiry later than now
IsActiveMember(m) ==
    m.status = "active" /\ ParsesAsDate(m.expiry_date) /\ fromisoformat(m.expiry_date) > now

\* Expired: the expiry is a date, and it is not later than now
IsExpiredMember(m) == ParsesAsDate(m.expiry_date) /\ fromisoformat(m.expiry_date) <= now

ScanEndpoints == {"scan", "scan-qr"}

ScanVia(endpoint, token, scanned, event_name) ==
    IF endpoint = "scan"
    THEN scan(db, now, token, scanned, event_name)
    ELSE scan_qr(db, now, token, scanned, event_name)

\* The Members that own a Dependent
OwnersOf(f) == {m \in db.members : m.id = f.primary_member_id}

\* C2: in every reachable store, a scan by an admin, through /api/scan or /api/scan-qr, of
\* the identifier of a Dependent whose owning Member is active succeeds, appends one row
\* whose member_name is the Dependent's name, and adds the points_awarded of that row to
\* the points of the owning Member.
C2_DependentScanCreditsOwner ==
    \A token \in TokenInputs, f \in db.family_members, e \in EventInputs, ep \in ScanEndpoints :
        \A owner \in OwnersOf(f) :
            (IsAdminToken(token) /\ IsActiveMember(owner)) =>
                LET r == ScanVia(ep, token, f.member_number, e)
                IN /\ r.resp.code = 200
                   /\ AppendsOneRow(r.db)
                   /\ LastRow(r.db).member_name = f.name
                   /\ \E x \in r.db.members : x.id = owner.id
                   /\ MemberById(r.db, owner.id).points = owner.points + LastRow(r.db).points_awarded

\* An identifier somebody has: a Member's number or a Dependent's scan identifier
IsKnownNumber(n) == n \in MemberNumbers(db) \cup FamilyNumbers(db)

\* C3, as the specification states it: a scan by an admin, through either endpoint, of an
\* identifier that is neither a Member's number nor a Dependent's identifier answers 404
\* and leaves the whole store unchanged.
C3_UnknownIdentifierAsStated ==
    \A token \in TokenInputs, n \in ScanInputs(db), e \in EventInputs, ep \in ScanEndpoints :
        (IsAdminToken(token) /\ ~IsKnownNumber(n)) =>
            LET r == ScanVia(ep, token, n, e)
            IN r.resp.code = 404 /\ r.db = db

\* C3, amended: /api/scan looks the identifier up as it was sent, /api/scan-qr after
\* trimming it.  An identifier that its endpoint looks up and nobody has is answered with
\* 404; an identifier that /api/scan-qr trims to the empty text is answered with 400
\* 'Member number required'.  In all these cases the whole store is unchanged.
C3_UnknownIdentifier ==
    \A token \in TokenInputs, n \in ScanInputs(db), e \in EventInputs :
        IsAdminToken(token) =>
            /\ ~IsKnownNumber(n) =>
                  LET r == scan(db, now, token, n, e)
                  IN r.resp = Response(404, "Member not found") /\ r.db = db
            /\ (strip(n) # <<>> /\ ~IsKnownNumber(strip(n))) =>
                  LET r == scan_qr(db, now, token, n, e)
                  IN r.resp = Response(404, "Member not found") /\ r.db = db
            /\ strip(n) = <<>> =>
                  LET r == scan_qr(db, now, token, n, e)
                  IN r.resp = Response(400, "Member number required") /\ r.db = db

\* C3's case: an admin is logged in, the store holds a Dependent and an attendance row, and
\* both endpoints answer 404 to a number nobody has
C3_Witness ==
    \E token \in TokenInputs, e \in EventInputs :
        /\ IsAdminToken(token)
        /\ ~IsKnownNumber(UnknownNumber)
        /\ db.family_members # {}
        /\ Len(db.attendance) > 0
        /\ scan(db, now, token, UnknownNumber, e).resp.code = 404
        /\ scan_qr(db, now, token, UnknownNumber, e).resp.code = 404

\* C4: in every reachable store, a scan by an admin, through /api/scan or /api/scan-qr, of
\* an identifier that is a Member's number or a Dependent's identifier appends exactly one
\* attendance row, also when the owning Member is inactive or expired.
C4_EveryResolvingScanRecorded ==
    \A token \in TokenInputs, n \in MemberNumbers(db) \cup FamilyNumbers(db),
       e \in EventInputs, ep \in ScanEndpoints :
        IsAdminToken(token) => AppendsOneRow(ScanVia(ep, token, n, e).db)

\* The scan identifiers of the Dependents a Member owns
DependentNumbers(m) == {f.member_number : f \in {g \in db.family_members : g.primary_member_id = m.id}}

\* The passwords a Member logs in with
PasswordsOf(m) == {p \in PasswordInputs : hash_password(strip(p)) = m.password_hash}

\* C5: in every reachable store, after a successful DELETE /api/admin/delete-member of a
\* Member: no Dependent of that Member remains, no attendance row has the Member's number
\* or the identifier of a Dependent the Member owned, no session of the Member's email
\* remains, the Member's row is gone, and a login with that email and the former password
\* fails.
C5_DeleteCascade ==
    \A token \in TokenInputs, m \in db.members :
        LET r == delete_member(db, now, token, m.member_number)
        IN r.resp.code = 200 =>
            /\ \A f \in r.db.family_members : f.primary_member_id # m.id
            /\ \A i \in 1..Len(r.db.attendance) :
                  r.db.attendance[i].member_number \notin {m.member_number} \cup DependentNumbers(m)
            /\ \A x \in r.db.sessions : x.email # m.email
            /\ \A x \in r.db.members : x.id # m.id /\ x.member_number # m.member_number
            /\ \A p \in PasswordsOf(m) :
                  login(r.db, now, generate_token, m.email, p).resp.code # 200

\* C6: in every reachable store, DELETE /api/admin/delete-member by an admin answers 400
\* 'Cannot delete your own account' when the Member of the number has the admin's own
\* email, and 404 'Member not found' when no Member has the number; in both cases the whole
\* store (members, family members, attendance, sessions) is unchanged.
C6_DeleteRefused ==
    \A token \in TokenInputs, n \in MemberNumbers(db) \cup {UnknownNumber, <<>>} :
        IsAdminToken(token) =>
            LET user == verify_token(db, now, token)
                r == delete_member(db, now, token, n)
            IN /\ n \notin MemberNumbers(db) =>
                    r.resp = Response(404, "Member not found") /\ r.db = db
               /\ (\E m \in db.members : m.member_number = n /\ m.email = user.email) =>
                    r.resp = Response(400, "Cannot delete your own account") /\ r.db = db

\* C6's case: an admin is logged in while the store holds another Member, a Dependent and
\* an attendance row; the admin's own number is refused with 400, an unknown one with 404
C6_Witness ==
    \E token \in TokenInputs :
        /\ IsAdminToken(token)
        /\ Cardinality(db.members) > 1
        /\ db.family_members # {}
        /\ Len(db.attendance) > 0
        /\ delete_member(db, now, token, verify_token(db, now, token).member_number).resp.code = 400
        /\ delete_member(db, now, token, UnknownNumber).resp.code = 404

AccountsOf(user) == {m \in db.members : m.email = user.email}

LoginCode(d, email, password) == login(d, now, generate_token, email, password).resp.code

\* C8, as the specification states it: for every authenticated identity, change_password
\* with the current password and any new password of length >= 6 answers 200, and
\* afterwards a login with the old password fails and a login with the new one succeeds.
C8_ChangePasswordAsStated ==
    \A token \in TokenInputs, current \in PasswordInputs, new \in PasswordInputs :
        LET user == verify_token(db, now, token)
        IN user # None =>
            \A m \in AccountsOf(user) :
                (hash_password(current) = m.password_hash /\ Len(new) >= MinPasswordLen) =>
                    LET r == change_password(db, now, token, current, new)
                    IN /\ r.resp.code = 200
                       /\ LoginCode(r.db, m.email, current) # 200
                       /\ LoginCode(r.db, m.email, new) = 200

\* C8, amended: the passwords are taken without their leading and trailing blanks.  For
\* every authenticated identity, change_password with the current password and a new
\* password that has at least 6 characters and is not the current one answers 200, and
\* afterwards a login with the old password fails and a login with the new one succeeds.
C8_ChangePassword ==
    \A token \in TokenInputs, current \in PasswordInputs, new \in PasswordInputs :
        LET user == verify_token(db, now, token)
        IN user # None =>
            \A m \in AccountsOf(user) :
                (/\ hash_password(strip(current)) = m.password_hash
                 /\ Len(strip(new)) >= MinPasswordLen
                 /\ strip(new) # strip(current)) =>
                    LET r == change_password(db, now, token, current, new)
                    IN /\ r.resp = Response(200, "Password changed successfully")
                       /\ LoginCode(r.db, m.email, current) = 401
                       /\ LoginCode(r.db, m.email, new) = 200

\* C8's case: a password was changed; the new one logs in and the default one no longer does
C8_Witness ==
    \E m \in db.members :
        /\ m.password_hash = hash_password(NewPassword)
        /\ LoginCode(db, m.email, NewPassword) = 200
        /\ LoginCode(db, m.email, default_admin_password) = 401

\* C9, as the specification states it: for every authenticated identity, change_password
\* answers WrongCurrentPassword (401) when the current password does not match the stored
\* hash and PasswordTooShort (400) when the new password has fewer than 6 characters; and
\* whenever it fails no Member's password hash changes and the old password still logs in.
C9_ChangePasswordFailuresAsStated ==
    \A token \in TokenInputs, current \in PasswordInputs, new \in PasswordInputs :
        LET user == verify_token(db, now, token)
        IN user # None =>
            \A m \in AccountsOf(user) :
                LET r == change_password(db, now, token, current, new)
                IN /\ hash_password(strip(current)) # m.password_hash => r.resp.code = 401
                   /\ Len(new) < MinPasswordLen => r.resp.code = 400
                   /\ r.resp.code # 200 =>
                         /\ r.db.members = db.members
                         /\ \A p \in PasswordsOf(m) : LoginCode(r.db, m.email, p) = 200

\* C9, amended: the passwords are taken without their leading and trailing blanks and the
\* checks run in this order.  If either password is empty the answer is 400 'Both current
\* and new password required'; else if the new one has fewer than 6 characters it is 400
\* 'New password must be at least 6 characters', whatever the current one is; else if the
\* current one does not match the stored hash it is 401 'Current password is incorrect'.
\* Whenever the request fails the store is unchanged and the old password still logs in.
C9_ChangePasswordFailures ==
    \A token \in TokenInputs, current \in PasswordInputs, new \in PasswordInputs :
        LET user == verify_token(db, now, token)
        IN user # None =>
            \A m \in AccountsOf(user) :
                LET r == change_password(db, now, token, current, new)
                    cur == strip(current)
                    nw == strip(new)
                IN /\ (cur = <<>> \/ nw = <<>>) =>
                         r.resp = Response(400, "Both current and new password required")
                   /\ (cur # <<>> /\ nw # <<>> /\ Len(nw) < MinPasswordLen) =>
                         r.resp = Response(400, "New password must be at least 6 characters")
                   /\ (cur # <<>> /\ Len(nw) >= MinPasswordLen /\ hash_password(cur) # m.password_hash) =>
                         r.resp = Response(401, "Current password is incorrect")
                   /\ r.resp.code # 200 =>
                         /\ r.db = db
                         /\ \A p \in PasswordsOf(m) : LoginCode(r.db, m.email, p) = 200

\* C9's case: an identity that has changed its password is logged in; its former password
\* as the current one is refused with 401, a new password of 5 characters with 400
C9_Witness ==
    \E token \in TokenInputs :
        LET user == verify_token(db, now, token)
        IN /\ user # None
           /\ \E m \in AccountsOf(user) : m.password_hash = hash_password(NewPassword)
           /\ change_password(db, now, token, default_admin_password, PasswordB).resp.code = 401
           /\ change_password(db, now, token, NewPassword, ShortPassword).resp.code = 400

\* The session table holds the token with an expiry later than now
StoredLive(token) == \E s \in db.sessions : s.token = token /\ s.expires_at > now

\* The session table holds the token with an expiry at or before now
StoredExpired(token) == \E s \in db.sessions : s.token = token /\ s.expires_at <= now

\* C10: verify_token fails closed.  In every reachable state and whether or not the
\* database fails, it does not raise; it returns an identity only for a token the session
\* table holds with an expiry later than now, and None for an absent token, an unknown one
\* and an expired one.  And a token that has expired does not validate in any later state.
C10_ValidateFailsClosed ==
    /\ [](\A token \in TokenInputs, connect_raises \in BOOLEAN, query_raises \in BOOLEAN :
            LET user == VerifyTokenOutcome(db, now, token, connect_raises, query_raises)
            IN /\ user # Raised
               /\ user # None => StoredLive(token)
               /\ ~StoredLive(token) => user = None)
    /\ [][\A token \in TokenInputs :
            (StoredExpired(token) \/ (token \in IssuedTokens /\ ~StoredLive(token))) =>
                (verify_token(db, now, token) = None)']_vars

\* C11: in every reachable store and for every token, POST /api/logout answers 200 and
\* removes the session row of that token and nothing else: the token no longer validates,
\* every other session is kept as it is, the other sessions of the same identity included,
\* the other tables are unchanged, a token without a session leaves the whole store
\* unchanged, and a second logout changes nothing.
C11_RevokeExactlyOne ==
    \A token \in SessionTokenInputs :
        LET r == logout(db, token)
        IN /\ r.resp.code = 200
           /\ verify_token(r.db, now, token) = None
           /\ r.db.sessions = {s \in db.sessions : s.token # token}
           /\ Cardinality(db.sessions) - Cardinality(r.db.sessions) <= 1
           /\ [r.db EXCEPT !.sessions = db.sessions] = db
           /\ \A other \in SessionTokenInputs \ {token} :
                 verify_token(r.db, now, other) = verify_token(db, now, other)
           /\ (\A s \in db.sessions : s.token # token) => r.db = db
           /\ logout(r.db, token).db = r.db

\* C11's case: an identity logged in twice and logged out once; the other session is live
C11_Witness ==
    \E a \in IssuedTokens, b \in IssuedTokens :
        /\ \A s \in db.sessions : s.token # a
        /\ verify_token(db, now, b) # None
        /\ verify_token(db, now, b).email = default_admin_email
        /\ Cardinality(db.members) = 1

\* The store with one more session and nothing else changed
WithSession(d, session) == [d EXCEPT !.sessions = @ \cup {session}]

\* C12, as the specification states it: when the identifier is a stored Member's email,
\* whatever its case, or its phone of 10 digits, and the password matches that Member's
\* hash, POST /api/login returns that Member and stores a session for its email; every
\* other input is answered with 401 'Invalid credentials' and no session is stored.
C12_AuthenticateAsStated ==
    \A id \in LoginIdInputs, pw \in LoginPasswordInputs :
        LET r == login(db, now, generate_token, id, pw)
            ident == strip(id)
            matching == {m \in db.members :
                            /\ hash_password(strip(pw)) = m.password_hash
                            /\ \/ m.email = lower(ident)
                               \/ isdigit(ident) /\ Len(ident) = PhoneLen /\ m.phone = ident}
        IN /\ \A m \in matching :
                 /\ r.resp.code = 200
                 /\ r.resp.member_number = m.member_number
                 /\ r.db = WithSession(db, NewSession(m, generate_token, now))
           /\ matching = {} =>
                 r.resp = Response(401, "Invalid credentials") /\ r.db = db

\* C12, amended: identifier and password are taken without leading and trailing blanks; a
\* phone is 10 digits of which the first is 0.  When the identifier is a stored Member's
\* email, whatever its case, or a phone that is a stored Member's phone, and the password
\* matches that Member's hash: if the Member's status is 'active', login returns that
\* Member and stores one session for its email, else it answers 401 'Account is not
\* active'.  An empty identifier or password is answered with 400, every other input with
\* 401 'Invalid credentials'.  Every refused login leaves the store unchanged.
C12_Authenticate ==
    \A id \in LoginIdInputs, pw \in LoginPasswordInputs :
        LET r == login(db, now, generate_token, id, pw)
            ident == strip(id)
            password == strip(pw)
            matching == {m \in db.members :
                            /\ hash_password(password) = m.password_hash
                            /\ \/ m.email = lower(ident)
                               \/ IsPhone(ident) /\ m.phone = ident}
        IN IF ident = <<>> \/ password = <<>>
           THEN r.resp = Response(400, "Email/phone and password required") /\ r.db = db
           ELSE /\ \A m \in matching :
                      IF m.status = "active"
                      THEN /\ r.resp.code = 200
                           /\ r.resp.member_number = m.member_number
                           /\ r.db = WithSession(db, NewSession(m, generate_token, now))
                           /\ verify_token(r.db, now, generate_token).email = m.email
                      ELSE r.resp = Response(401, "Account is not active") /\ r.db = db
                /\ matching = {} =>
                      r.resp = Response(401, "Invalid credentials") /\ r.db = db

\* C12's case: an admin has logged in, and an imported Member with a phone can log in by
\* its phone with the phone as the password
C12_Witness ==
    /\ \E s \in db.sessions : s.email = default_admin_email
    /\ \E m \in db.members :
          /\ m.phone = GoodPhone
          /\ login(db, now, generate_token, GoodPhone, GoodPhone).resp.code = 200
          /\ login(db, now, generate_token, GoodPhone, GoodPhone).resp.member_number = m.member_number

\* The answers of all admin-only requests with the given Authorization header
AdminOnlyResults(token) ==
    {scan(db, now, token, n, e) : n \in ScanInputs(db), e \in EventInputs}
    \cup {scan_qr(db, now, token, n, e) : n \in ScanInputs(db), e \in EventInputs}
    \cup {get_member_info(db, now, token, n) : n \in ScanInputs(db)}
    \cup {get_all_members(db, now, token), get_attendance(db, now, token),
          get_admin_stats(db, now, token), get_expiring_members(db, now, token)}
    \cup {create_admin(db, now, token, data) : data \in CreateAdminInputs}
    \cup {delete_member(db, now, token, n) : n \in MemberNumbers(db) \cup {UnknownNumber}}
    \cup {import_excel(db, now, token, data) : data \in ImportInputs \cup PhoneImportInputs}

\* The session table holds the token, unexpired, with the role admin
HasAdminSession(token) ==
    \E s \in db.sessions : s.token = token /\ s.expires_at > now /\ s.role = "admin"

\* C13: in every reachable store, every admin-only request (scan, scan-qr, member-info,
\* the admin listings and stats, create-admin, delete-member, import) whose token is
\* missing, unknown or expired, or is the token of a session whose role is not admin, is
\* answered with 401 and leaves the whole store unchanged.
C13_AdminOnly ==
    \A token \in SessionTokenInputs :
        ~HasAdminSession(token) =>
            \A r \in AdminOnlyResults(token) : r.resp.code = 401 /\ r.db = db

\* C13's case: a Member who is no admin is logged in next to an admin whose session has
\* expired or who has none, and has its own number refused by /api/scan
C13_Witness ==
    \E token \in IssuedTokens, e \in EventInputs :
        LET user == verify_token(db, now, token)
        IN /\ user # None
           /\ user.role = "member"
           /\ \E other \in IssuedTokens : other # token /\ ~HasAdminSession(other)
           /\ scan(db, now, token, user.member_number, e).resp.code = 401

\* C14: in every state reached by create-admin, bulk import and delete requests, no two
\* Members have the same membership number, no two Members have the same email, no two
\* Dependents have the same scan identifier, and no Dependent's scan identifier is the
\* membership number of a Member.
C14_Unique ==
    /\ \A a \in db.members, b \in db.members :
          a # b => a.member_number # b.member_number /\ a.email # b.email
    /\ \A f \in db.family_members, g \in db.family_members :
          f # g => f.member_number # g.member_number
    /\ \A f \in db.family_members, m \in db.members : f.member_number # m.member_number

\* C15: the points of every Member are a natural number at all times, and in every step in
\* which a Member stays in the store its points do not go down; they change only in a step
\* that appends an attendance row, and then by the points_awarded of that row.
C15_PointsMonotone ==
    /\ [](\A m \in db.members : m.points \in Nat)
    /\ [][\A m \in db.members, x \in db'.members :
             x.id = m.id =>
                 /\ x.points >= m.points
                 /\ x.points # m.points =>
                       /\ Len(db'.attendance) = Len(db.attendance) + 1
                       /\ db'.attendance[Len(db'.attendance)].points_awarded
                             = x.points - m.points]_vars

\* C15's case: a Member was scanned through /api/scan-qr and holds the points of the row
C15_Witness ==
    \E i \in 1..Len(db.attendance), m \in db.members :
        /\ db.attendance[i].member_number = m.member_number
        /\ db.attendance[i].status = "present"
        /\ m.points = db.attendance[i].points_awarded
        /\ m.points > 0

ResolvedMember(n) ==
    IF MemberByNumber(db, n) # None THEN MemberByNumber(db, n) ELSE FamilyByNumber(db, n).m

\* C17: in every reachable store and for every stored identifier, /api/scan, /api/scan-qr
\* and /api/member-info give the same verdict at the same time, and it is the strict rule:
\* active exactly if the status is 'active' and the expiry is later than now, so that a
\* Member whose expiry is this instant, or is today's date, is not active.
C17_SameStrictRule ==
    \A token \in TokenInputs, n \in MemberNumbers(db) \cup FamilyNumbers(db), e \in EventInputs :
        IsAdminToken(token) =>
            LET active == IsActiveMember(ResolvedMember(n))
                by_scan == scan(db, now, token, n, e).resp
                by_scan_qr == scan_qr(db, now, token, n, e).resp
                by_member_info == get_member_info(db, now, token, n).resp
            IN /\ (by_scan.code = 200 /\ by_scan.status = "granted") <=> active
               /\ (by_scan_qr.code = 200) <=> active
               /\ (by_member_info.code = 200 /\ by_member_info.is_active) <=> active

\* C18: in every reachable state an identity has at most one live session, and a
\* successful login for an email leaves no token of an earlier login for that email
\* validating.
C18_OneLiveSession ==
    /\ \A a \in db.sessions, b \in db.sessions :
          (a.email = b.email /\ a.expires_at > now /\ b.expires_at > now) => a = b
    /\ \A id \in LoginEmailInputs, pw \in PasswordInputs :
          LET r == login(db, now, generate_token, id, pw)
          IN r.resp.code = 200 =>
                \A token \in IssuedTokens :
                    LET user == verify_token(db, now, token)
                    IN (user # None /\ user.email = verify_token(r.db, now, generate_token).email) =>
                          verify_token(r.db, now, token) = None

\* 'M' followed by a sequence number zero-padded to the width of the format
IsSequenceNumber(text) ==
    /\ startswith(text, "M")
    /\ isdigit(Tail(text))
    /\ FormatMemberNumber(int(Tail(text))) = text

\* The rows of an import whose email is nonempty and used neither by a stored Member nor by
\* an earlier row, and whose phone is used by no stored Member
FreshRows(data) ==
    {i \in 1..Len(data) :
        LET email == lower(strip(data[i].email))
            phone == strip(data[i].phone)
        IN /\ email # <<>>
           /\ \A m \in db.members : m.email # email /\ (phone = <<>> \/ m.phone # phone)
           /\ \A j \in 1..(i - 1) : lower(strip(data[j].email)) # email}

\* C19: in every reachable state a bulk import by an administrator does not fail while
\* computing the next number, creates a Member for every row with an unused email and
\* phone, and gives every Member it creates a number 'M' + zero-padded sequence number
\* that is distinct from every stored number and greater than every stored sequence number.
C19_ImportNumbers ==
    \A token \in SessionTokenInputs, data \in AccountImportInputs :
        IsAdminToken(token) =>
            LET r == import_excel(db, now, token, data)
                created == r.db.members \ db.members
            IN /\ r.resp.code = 200
               /\ \A i \in FreshRows(data) :
                     \E m \in created : m.email = lower(strip(data[i].email))
               /\ \A m \in created :
                     /\ IsSequenceNumber(m.member_number)
                     /\ \A q \in db.members :
                           /\ q.member_number # m.member_number
                           /\ IsSequenceNumber(q.member_number) =>
                                 int(Tail(m.member_number)) > int(Tail(q.member_number))

\* The Members whose points differ between the store and the store after a request
PointsChanged(after) ==
    {m \in db.members : \E q \in after.members : q.id = m.id /\ q.points # m.points}

\* C20: in every reachable state a granted scan changes the points of exactly one Member,
\* the one the scanned identifier resolved to, by the points_awarded of the appended
\* attendance record, and the sum of all Members' points grows by that amount.
C20_GrantedScanCreditsOne ==
    \A token \in TokenInputs, n \in ScanInputs(db), e \in EventInputs :
        LET r == scan(db, now, token, n, e)
        IN (r.resp.code = 200 /\ r.resp.status = "granted") =>
              LET awarded == LastRow(r.db).points_awarded
                  target == ResolvedMember(n)
              IN /\ AppendsOneRow(r.db)
                 /\ PointsChanged(r.db) = {target}
                 /\ MemberById(r.db, target.id).points = target.points + awarded
                 /\ SumPoints(r.db.members) = SumPoints(db.members) + awarded

\* C21: in every reachable state at least one Member is an admin, whatever delete-member
\* requests authenticated admins have sent and however their statements interleave.
C21_AdminRemains == \E m \in db.members : m.is_admin = 1

\* The role login gives a session of the Member
RoleOf(m) == IF m.is_admin = 1 THEN "admin" ELSE "member"

\* C22: in every reachable state every token that validates belongs to a session whose
\* email is the email of a stored Member and whose role is that Member's admin flag,
\* however the statements of login, logout and delete-member requests interleave.
C22_TokensOfMembers ==
    \A token \in SessionTokenInputs :
        LET user == verify_token(db, now, token)
        IN user # None =>
              \E m \in db.members : m.email = user.email /\ user.role = RoleOf(m)

====
